---- MODULE Spec2Model ----
(***************************************************************************)
(* CPStats-API: the platform adapters, the dispatcher and the batch        *)
(* orchestrator of src/rating_fetcher.py (class RatingFetcher), and the    *)
(* endpoints, the cache and the rate limiter of src/main.py.               *)
(*                                                                         *)
(* Conventions.  A Python str is a sequence of one-character strings, so   *)
(* that lower(), strip(), "in", split() and re.sub() are computed on the   *)
(* characters.  A value that comes out of a JSON document is tagged with   *)
(* its Python type: [t |-> "int", v |-> 1500], [t |-> "NoneType", v |-> 0],*)
(* [t |-> "dict", v |-> [key |-> value]].  A dict that the code builds (a  *)
(* Rating Record) is a TLA+ record; a key is present iff it is in DOMAIN.  *)
(* status is a TLA+ string.  average_rating is kept in hundredths.         *)
(***************************************************************************)
EXTENDS Integers, Sequences, FiniteSets, TLC

VARIABLES pc, call, out, trace, requests_data, i, results, valid_ratings

\* the service of src/main.py: the clock (time.time(), in seconds), the rate
\* limiter's lists, the entries of the lru_cache (least recently used first),
\* the ENABLE_CACHE setting and the HTTP response of the last request; lookups
\* and accepted are history variables: the keys looked up through the cached
\* function (least recently used first, each with the record last served) and
\* the times of the accepted requests of each client
VARIABLES now, request_counts, cache, ENABLE_CACHE, http, lookups, accepted

fetcher == <<pc, call, out, trace, requests_data, i, results, valid_ratings>>
service == <<now, request_counts, cache, ENABLE_CACHE, http, lookups, accepted>>
vars == <<fetcher, service>>

\* ---------------------------------------------------------------- bounds
\* longest batch handed to get_multiple_ratings
MaxBatch == 3
\* most table cells (td/th) on an AtCoder profile page
MaxCells == 3
\* most requests the service accepts from one client in a run
MaxRequests == 3
\* last instant of the clock, in seconds
MaxClock == 300
\* RATE_LIMIT_REQUESTS and RATE_LIMIT_WINDOW of the environment (100 and 3600
\* when unset)
RATE_LIMIT == 2
RATE_WINDOW == 300
\* capacity of the lru_cache: 1000 in the source, scaled so that the cache
\* fills within MaxRequests requests
CacheMaxSize == 1

\* ------------------------------------------------------------ Python str
UpperCase == <<"A", "B", "C", "D", "E", "F", "G", "H", "I", "J", "K", "L", "M",
               "N", "O", "P", "Q", "R", "S", "T", "U", "V", "W", "X", "Y", "Z">>
LowerCase == <<"a", "b", "c", "d", "e", "f", "g", "h", "i", "j", "k", "l", "m",
               "n", "o", "p", "q", "r", "s", "t", "u", "v", "w", "x", "y", "z">>
DigitChars == <<"0", "1", "2", "3", "4", "5", "6", "7", "8", "9">>

lower_char(c) ==
    IF \E k \in 1..Len(UpperCase) : UpperCase[k] = c
    THEN LowerCase[CHOOSE k \in 1..Len(UpperCase) : UpperCase[k] = c]
    ELSE c

\* str.lower()
str_lower(s) == [k \in 1..Len(s) |-> lower_char(s[k])]

is_space(c) == c \in {" ", "\t", "\n", "\r"}

RECURSIVE str_lstrip(_)
str_lstrip(s) ==
    IF s = <<>> \/ ~is_space(Head(s)) THEN s ELSE str_lstrip(Tail(s))

RECURSIVE str_rstrip(_)
str_rstrip(s) ==
    IF s = <<>> \/ ~is_space(s[Len(s)]) THEN s
    ELSE str_rstrip(SubSeq(s, 1, Len(s) - 1))

\* str.strip()
str_strip(s) == str_rstrip(str_lstrip(s))

\* sub in s
str_contains(s, sub) ==
    \E k \in 0..(Len(s) - Len(sub)) : SubSeq(s, k + 1, k + Len(sub)) = sub

\* s.find(sub) + 1, or 0 when sub does not occur
str_find(s, sub) ==
    IF str_contains(s, sub)
    THEN 1 + CHOOSE k \in 0..(Len(s) - Len(sub)) :
               /\ SubSeq(s, k + 1, k + Len(sub)) = sub
               /\ \A j \in 0..(k - 1) : SubSeq(s, j + 1, j + Len(sub)) # sub
    ELSE 0

\* s.split(sub)[1], for s that contains sub
str_split_1(s, sub) ==
    LET rest == SubSeq(s, str_find(s, sub) + Len(sub), Len(s))
        nxt  == str_find(rest, sub)
    IN IF nxt = 0 THEN rest ELSE SubSeq(rest, 1, nxt - 1)

is_digit(c) == \E k \in 1..Len(DigitChars) : DigitChars[k] = c

\* re.sub(r'[^\d]', '', s)
re_sub_non_digits(s) == SelectSeq(s, is_digit)

digit_value(c) == (CHOOSE k \in 1..Len(DigitChars) : DigitChars[k] = c) - 1

\* int(s), for s a non-empty string of digits
RECURSIVE py_int(_)
py_int(s) ==
    IF s = <<>> THEN 0
    ELSE 10 * py_int(SubSeq(s, 1, Len(s) - 1)) + digit_value(s[Len(s)])

\* string literals of the source
leetcode == <<"l", "e", "e", "t", "c", "o", "d", "e">>
codeforces == <<"c", "o", "d", "e", "f", "o", "r", "c", "e", "s">>
codechef == <<"c", "o", "d", "e", "c", "h", "e", "f">>
atcoder == <<"a", "t", "c", "o", "d", "e", "r">>
User_not_found == <<"U", "s", "e", "r", " ", "n", "o", "t", " ", "f", "o", "u", "n", "d">>
Request_timeout == <<"R", "e", "q", "u", "e", "s", "t", " ", "t", "i", "m", "e", "o", "u", "t">>
Connection_error == <<"C", "o", "n", "n", "e", "c", "t", "i", "o", "n", " ", "e", "r", "r", "o", "r">>
Unsupported_platform == <<"U", "n", "s", "u", "p", "p", "o", "r", "t", "e", "d", " ",
                          "p", "l", "a", "t", "f", "o", "r", "m", ":", " ">>
Platform_and_username_are_required ==
    <<"P", "l", "a", "t", "f", "o", "r", "m", " ", "a", "n", "d", " ",
      "u", "s", "e", "r", "n", "a", "m", "e", " ", "a", "r", "e", " ",
      "r", "e", "q", "u", "i", "r", "e", "d">>
unrated == <<"u", "n", "r", "a", "t", "e", "d">>
page_not_found == <<"p", "a", "g", "e", " ", "n", "o", "t", " ", "f", "o", "u", "n", "d">>
Rating == <<"R", "a", "t", "i", "n", "g">>
Highest_Rating == <<"H", "i", "g", "h", "e", "s", "t", " ", "R", "a", "t", "i", "n", "g">>
Rank == <<"R", "a", "n", "k">>
Country == <<"C", "o", "u", "n", "t", "r", "y">>
Global_Rank == <<"G", "l", "o", "b", "a", "l", " ", "R", "a", "n", "k">>
Country_Rank == <<"C", "o", "u", "n", "t", "r", "y", " ", "R", "a", "n", "k">>
OK == <<"O", "K">>

\* --------------------------------------------------------- Python values
None == [t |-> "NoneType", v |-> 0]
PyInt(n) == [t |-> "int", v |-> n]
PyStr(s) == [t |-> "str", v |-> s]
PyList(l) == [t |-> "list", v |-> l]
PyDict(d) == [t |-> "dict", v |-> d]

\* bool(x)
truthy(x) ==
    CASE x.t = "NoneType" -> FALSE
      [] x.t = "int" -> x.v # 0
      [] x.t = "str" -> Len(x.v) > 0
      [] x.t = "list" -> Len(x.v) > 0
      [] x.t = "dict" -> DOMAIN x.v # {}

\* d.get(key, default), for d a dict
dict_get(d, key, default) == IF key \in DOMAIN d.v THEN d.v[key] ELSE default

\* the type of the exception d[key] raises, "" when it raises none
subscript_raises(d, key) ==
    IF d.t # "dict" THEN "TypeError"
    ELSE IF key \notin DOMAIN d.v THEN "KeyError"
    ELSE ""

\* ------------------------------------------- control flow of a try block
Return(rec) == [raised |-> FALSE, ret |-> rec]
Raise(type, msg) == [raised |-> TRUE, exc |-> [type |-> type, msg |-> msg]]

\* str(e) of the exceptions of the model
msg_of(type) ==
    CASE type = "HTTPError" -> <<"H", "T", "T", "P">>
      [] type = "JSONDecodeError" -> <<"J", "S", "O", "N">>
      [] type = "AttributeError" -> <<"g", "e", "t">>
      [] type = "TypeError" -> <<"t", "y", "p", "e">>
      [] type = "KeyError" -> <<"k", "e", "y">>
      [] OTHER -> <<>>

\* requests.exceptions: ConnectTimeout derives from ConnectionError and Timeout
is_Timeout(e) == e.type \in {"Timeout", "ConnectTimeout", "ReadTimeout"}
is_ConnectionError(e) == e.type \in {"ConnectionError", "ConnectTimeout"}

\* ------------------------------------------------------------- transport
\* session.get behind a transport adapter that sends a failed request again
session_get_retry(site) ==
    <<[method |-> "GET", site |-> site, timeout |-> 10],
      [method |-> "GET", site |-> site, timeout |-> 10]>>

\* the requests one session.post / session.get call puts on the wire
session_post(site) == <<[method |-> "POST", site |-> site, timeout |-> 10]>>
session_get(site) == <<[method |-> "GET", site |-> site, timeout |-> 10]>>

\* the exception the transport call raises, "" when it returns a response
transport_raises(resp) == IF resp.outcome = "response" THEN "" ELSE resp.outcome

\* Response.raise_for_status() raises HTTPError
raise_for_status(resp) == 400 <= resp.status_code /\ resp.status_code < 600

\* an error record that was given no error message
error_record_without_error(platform, username, status, error) ==
    [platform |-> platform, username |-> username, rating |-> PyInt(0), status |-> status]

\* the handlers without the last one, "except Exception"
except_clauses_without_catch_all(platform, username, r) ==
    IF ~r.raised THEN r
    ELSE IF is_Timeout(r.exc)
         THEN Return([platform |-> platform, username |-> username, rating |-> PyInt(0),
                      status |-> "error", error |-> Request_timeout])
    ELSE IF is_ConnectionError(r.exc)
         THEN Return([platform |-> platform, username |-> username, rating |-> PyInt(0),
                      status |-> "error", error |-> Connection_error])
    ELSE r

\* ------------------------------------------------ the adapters' handlers
error_record(platform, username, status, error) ==
    [platform |-> platform, username |-> username, rating |-> PyInt(0),
     status |-> status, error |-> error]

\* except Timeout / except ConnectionError / except Exception
except_clauses(platform, username, r) ==
    IF ~r.raised THEN r
    ELSE IF is_Timeout(r.exc)
         THEN Return(error_record(platform, username, "error", Request_timeout))
    ELSE IF is_ConnectionError(r.exc)
         THEN Return(error_record(platform, username, "error", Connection_error))
    ELSE Return(error_record(platform, username, "error", r.exc.msg))

\* ---------------------------------------------------------------- LeetCode
\* the try block of get_leetcode_rating, after the transport call
leetcode_try(username, resp) ==
    IF transport_raises(resp) # ""
    THEN Raise(transport_raises(resp), msg_of(transport_raises(resp)))
    ELSE IF raise_for_status(resp) THEN Raise("HTTPError", msg_of("HTTPError"))
    ELSE IF ~resp.body.valid THEN Raise("JSONDecodeError", msg_of("JSONDecodeError"))
    ELSE LET data == resp.body.json IN
    IF data.t # "dict" THEN Raise("AttributeError", msg_of("AttributeError"))
    ELSE LET d1 == dict_get(data, "data", None) IN
    IF ~truthy(d1)
    THEN Return(error_record(leetcode, username, "user_not_found", User_not_found))
    ELSE IF d1.t # "dict" THEN Raise("AttributeError", msg_of("AttributeError"))
    ELSE LET user_data == dict_get(d1, "matchedUser", None) IN
    IF ~truthy(user_data)
    THEN Return(error_record(leetcode, username, "user_not_found", User_not_found))
    ELSE LET contest_data == dict_get(d1, "userContestRanking", None)
             has_contest == truthy(contest_data)
             contest_raises(key) ==
                 IF has_contest THEN subscript_raises(contest_data, key) ELSE ""
             profile == IF user_data.t = "dict"
                        THEN dict_get(user_data, "profile", None) ELSE None
         IN
    IF contest_raises("rating") # ""
    THEN Raise(contest_raises("rating"), msg_of(contest_raises("rating")))
    ELSE IF contest_raises("globalRanking") # ""
    THEN Raise(contest_raises("globalRanking"), msg_of(contest_raises("globalRanking")))
    ELSE IF contest_raises("attendedContestsCount") # ""
    THEN Raise(contest_raises("attendedContestsCount"),
               msg_of(contest_raises("attendedContestsCount")))
    ELSE IF user_data.t # "dict" THEN Raise("AttributeError", msg_of("AttributeError"))
    ELSE IF truthy(profile) /\ subscript_raises(profile, "ranking") # ""
    THEN Raise(subscript_raises(profile, "ranking"),
               msg_of(subscript_raises(profile, "ranking")))
    ELSE Return(
        [platform |-> leetcode,
         username |-> username,
         rating |-> IF has_contest THEN contest_data.v["rating"] ELSE PyInt(0),
         global_ranking |-> IF has_contest THEN contest_data.v["globalRanking"] ELSE None,
         contests_attended |->
             IF has_contest THEN contest_data.v["attendedContestsCount"] ELSE PyInt(0),
         profile_ranking |-> IF truthy(profile) THEN profile.v["ranking"] ELSE None,
         status |-> "success"])

get_leetcode_rating(username, resp) ==
    except_clauses(leetcode, username, leetcode_try(username, resp))
        @@ [sent |-> session_post(leetcode)]

\* -------------------------------------------------------------- Codeforces
\* the try block of get_codeforces_rating, after the transport call
codeforces_try(username, resp) ==
    IF transport_raises(resp) # ""
    THEN Raise(transport_raises(resp), msg_of(transport_raises(resp)))
    ELSE IF raise_for_status(resp) THEN Raise("HTTPError", msg_of("HTTPError"))
    ELSE IF ~resp.body.valid THEN Raise("JSONDecodeError", msg_of("JSONDecodeError"))
    ELSE LET data == resp.body.json IN
    IF subscript_raises(data, "status") # ""
    THEN Raise(subscript_raises(data, "status"), msg_of(subscript_raises(data, "status")))
    ELSE IF data.v["status"] # PyStr(OK)
    THEN Return(error_record(codeforces, username, "user_not_found", User_not_found))
    ELSE IF subscript_raises(data, "result") # ""
    THEN Raise(subscript_raises(data, "result"), msg_of(subscript_raises(data, "result")))
    ELSE IF ~truthy(data.v["result"])
    THEN Return(error_record(codeforces, username, "user_not_found", User_not_found))
    ELSE IF data.v["result"].t # "list" THEN Raise("KeyError", msg_of("KeyError"))
    ELSE LET user_info == data.v["result"].v[1] IN
    IF user_info.t # "dict" THEN Raise("AttributeError", msg_of("AttributeError"))
    ELSE Return(
        [platform |-> codeforces,
         username |-> username,
         rating |-> dict_get(user_info, "rating", PyInt(0)),
         max_rating |-> dict_get(user_info, "maxRating", PyInt(0)),
         rank |-> dict_get(user_info, "rank", PyStr(unrated)),
         max_rank |-> dict_get(user_info, "maxRank", PyStr(unrated)),
         contribution |-> dict_get(user_info, "contribution", PyInt(0)),
         status |-> "success"])

get_codeforces_rating(username, resp) ==
    except_clauses(codeforces, username, codeforces_try(username, resp))
        @@ [sent |-> session_get(codeforces)]

\* ----------------------------------------------- HTML pages (BeautifulSoup)
\* An element the page may lack is a sequence of zero or one texts.
RECURSIVE str_join(_)
str_join(texts) == IF texts = <<>> THEN <<>> ELSE Head(texts) \o str_join(Tail(texts))

\* element.get_text(strip=True) of an element holding one text node
get_text_strip(text) == str_strip(text)

\* int(re.sub(r'[^\d]', '', text)) if the digits are not empty, else default
digits_or(text, default) ==
    IF re_sub_non_digits(text) # <<>> THEN py_int(re_sub_non_digits(text)) ELSE default

\* "Ensure max_rating is at least equal to current rating"
ensure_max_rating(rating, max_rating) ==
    IF max_rating < rating THEN rating ELSE max_rating

\* ---------------------------------------------------------------- CodeChef
\* response.text of a CodeChef page: the texts of the page, in one string
codechef_html_content(page) ==
    page.title \o str_join(page.rating_number) \o str_join(page.parent_children)
        \o str_join(page.country_name) \o str_join(str_join(page.rating_ranks))
        \o str_join(page.rating)

\* "Find current rating"
codechef_rating(page) ==
    IF page.rating_number # <<>>
    THEN digits_or(get_text_strip(page.rating_number[1]), 0)
    ELSE 0

\* "Find max rating by traversing parent children"
codechef_max_rating(page) ==
    LET children_list == page.parent_children IN
    IF page.rating_number # <<>> /\ Len(children_list) > 4
    THEN LET max_rating_text == get_text_strip(children_list[Len(children_list)]) IN
         IF str_contains(max_rating_text, Rating)
         THEN digits_or(str_strip(str_split_1(max_rating_text, Rating)), 0)
         ELSE 0
    ELSE 0

\* "Find global and country ranks": the loop over the li elements
RECURSIVE codechef_ranks(_, _)
codechef_ranks(li_elements, acc) ==
    IF li_elements = <<>> THEN acc
    ELSE LET li_text == get_text_strip(Head(li_elements)) IN
         codechef_ranks(Tail(li_elements),
            IF str_contains(li_text, Global_Rank)
            THEN [acc EXCEPT !.global_rank = digits_or(li_text, @)]
            ELSE IF str_contains(li_text, Country_Rank)
            THEN [acc EXCEPT !.country_rank = digits_or(li_text, @)]
            ELSE acc)

\* the try block of get_codechef_rating, after the transport call
codechef_try(username, resp) ==
    IF transport_raises(resp) # ""
    THEN Raise(transport_raises(resp), msg_of(transport_raises(resp)))
    ELSE IF raise_for_status(resp) THEN Raise("HTTPError", msg_of("HTTPError"))
    ELSE LET page == resp.body IN
    IF \/ resp.status_code = 404
       \/ str_contains(str_lower(codechef_html_content(page)), page_not_found)
    THEN Return(error_record(codechef, username, "user_not_found", User_not_found))
    ELSE LET rating == codechef_rating(page)
             max_rating == codechef_max_rating(page)
             ranks == IF page.rating_ranks # <<>>
                      THEN codechef_ranks(page.rating_ranks[1],
                                          [global_rank |-> 0, country_rank |-> 0])
                      ELSE [global_rank |-> 0, country_rank |-> 0]
         IN Return(
        [platform |-> codechef,
         username |-> username,
         rating |-> PyInt(rating),
         max_rating |-> PyInt(ensure_max_rating(rating, max_rating)),
         country_flag |-> PyStr(IF page.country_flag # <<>>
                                THEN page.country_flag[1] ELSE <<>>),
         country_name |-> PyStr(IF page.country_name # <<>>
                                THEN get_text_strip(page.country_name[1]) ELSE <<>>),
         global_rank |-> PyInt(ranks.global_rank),
         country_rank |-> PyInt(ranks.country_rank),
         stars |-> PyStr(IF page.rating # <<>>
                         THEN get_text_strip(page.rating[1]) ELSE unrated),
         status |-> "success"])

get_codechef_rating(username, resp) ==
    except_clauses(codechef, username, codechef_try(username, resp))
        @@ [sent |-> session_get(codechef)]

\* ----------------------------------------------------------------- AtCoder
\* a scan that takes the rating from the first cell holding digits, label or not
atcoder_scan_positional(table_cells, k, acc) ==
    LET numeric == {j \in k..Len(table_cells) :
                       re_sub_non_digits(get_text_strip(table_cells[j])) # <<>>}
    IN IF numeric = {} THEN acc
       ELSE [acc EXCEPT !.rating =
                py_int(re_sub_non_digits(get_text_strip(
                    table_cells[CHOOSE j \in numeric : \A h \in numeric : j <= h])))]

\* a scan whose "Rating" branch has no break
RECURSIVE atcoder_scan_no_break(_, _, _)
atcoder_scan_no_break(table_cells, k, acc) ==
    IF k > Len(table_cells) THEN acc
    ELSE LET cell_text == get_text_strip(table_cells[k])
             next_text == IF k + 1 <= Len(table_cells)
                          THEN get_text_strip(table_cells[k + 1]) ELSE <<>>
         IN
         atcoder_scan_no_break(table_cells, k + 1,
             IF cell_text = Rating
             THEN [acc EXCEPT !.rating = digits_or(next_text, @)]
             ELSE IF str_contains(cell_text, Highest_Rating)
             THEN [acc EXCEPT !.max_rating = digits_or(next_text, @)]
             ELSE IF str_contains(cell_text, Rank)
             THEN [acc EXCEPT !.rank = digits_or(next_text, @)]
             ELSE acc)

\* "Parse HTML table": the loop over the cells from cell i on
RECURSIVE atcoder_scan(_, _, _)
atcoder_scan(table_cells, k, acc) ==
    IF k > Len(table_cells) THEN acc
    ELSE LET cell_text == get_text_strip(table_cells[k])
             next_text == IF k + 1 <= Len(table_cells)
                          THEN get_text_strip(table_cells[k + 1]) ELSE <<>>
         IN
         IF cell_text = Rating
         THEN [acc EXCEPT !.rating = digits_or(next_text, @)]
         ELSE IF str_contains(cell_text, Highest_Rating)
         THEN atcoder_scan(table_cells, k + 1,
                           [acc EXCEPT !.max_rating = digits_or(next_text, @)])
         ELSE IF str_contains(cell_text, Rank)
         THEN atcoder_scan(table_cells, k + 1,
                           [acc EXCEPT !.rank = digits_or(next_text, @)])
         ELSE atcoder_scan(table_cells, k + 1, acc)

\* "Try to find country information"
atcoder_country(table_cells) ==
    LET hits == {k \in 1..Len(table_cells) :
                    str_contains(get_text_strip(table_cells[k]), Country)}
    IN IF hits = {} THEN <<>>
       ELSE LET k == CHOOSE h \in hits : \A g \in hits : h <= g IN
            IF k + 1 <= Len(table_cells)
            THEN get_text_strip(table_cells[k + 1]) ELSE <<>>

\* the try block of get_atcoder_rating, after the transport call
atcoder_try(username, resp) ==
    IF transport_raises(resp) # ""
    THEN Raise(transport_raises(resp), msg_of(transport_raises(resp)))
    ELSE IF resp.status_code = 404
    THEN Return(error_record(atcoder, username, "user_not_found", User_not_found))
    ELSE IF raise_for_status(resp) THEN Raise("HTTPError", msg_of("HTTPError"))
    ELSE LET table_cells == resp.body.cells
             scan == atcoder_scan(table_cells, 1,
                                  [rating |-> 0, max_rating |-> 0, rank |-> 0])
         IN Return(
        [platform |-> atcoder,
         username |-> username,
         rating |-> PyInt(scan.rating),
         max_rating |-> PyInt(ensure_max_rating(scan.rating, scan.max_rating)),
         rank |-> PyInt(scan.rank),
         country |-> PyStr(atcoder_country(table_cells)),
         status |-> "success"])

get_atcoder_rating(username, resp) ==
    except_clauses(atcoder, username, atcoder_try(username, resp))
        @@ [sent |-> session_get(atcoder)]

\* a dispatcher that lowercases the platform and does not trim it
get_rating_by_platform_no_strip(platform_arg, username, resp) ==
    LET platform == str_lower(platform_arg) IN
    IF platform = leetcode THEN get_leetcode_rating(username, resp)
    ELSE IF platform = codeforces THEN get_codeforces_rating(username, resp)
    ELSE IF platform = codechef THEN get_codechef_rating(username, resp)
    ELSE IF platform = atcoder THEN get_atcoder_rating(username, resp)
    ELSE [raised |-> FALSE,
          ret |-> [platform |-> platform, username |-> username, rating |-> PyInt(0),
                   status |-> "error", error |-> Unsupported_platform \o platform],
          sent |-> <<>>]

\* -------------------------------------------------------------- dispatcher
get_rating_by_platform(platform_arg, username, resp) ==
    LET platform == str_strip(str_lower(platform_arg)) IN
    IF platform = leetcode THEN get_leetcode_rating(username, resp)
    ELSE IF platform = codeforces THEN get_codeforces_rating(username, resp)
    ELSE IF platform = codechef THEN get_codechef_rating(username, resp)
    ELSE IF platform = atcoder THEN get_atcoder_rating(username, resp)
    ELSE Return(error_record(platform, username, "error",
                             Unsupported_platform \o platform))
             @@ [sent |-> <<>>]

\* ------------------------------------------------------ batch orchestrator
\* request.get(key, ''), for request a dict
request_get(request, key) == IF key \in DOMAIN request THEN request[key] ELSE <<>>

\* platform = request.get('platform', '').lower().strip()
item_platform(request) == str_strip(str_lower(request_get(request, "platform")))

\* a username taken as written
item_username_no_strip(request) == request_get(request, "username")

\* username = request.get('username', '').strip()
item_username(request) == str_strip(request_get(request, "username"))

\* x > 0 raises TypeError unless x is a number
gt_raises(x) == x.t # "int"

RECURSIVE py_sum(_)
py_sum(l) == IF l = <<>> THEN 0 ELSE Head(l) + py_sum(Tail(l))

\* round(num / den, 2) in hundredths, for num >= 0 and den > 0 (round half even)
py_round_2(num, den) ==
    LET q == (100 * num) \div den
        r == (100 * num) % den
    IN IF 2 * r < den THEN q
       ELSE IF 2 * r > den THEN q + 1
       ELSE IF q % 2 = 0 THEN q ELSE q + 1

\* time.sleep(0.5), in milliseconds
PacingDelayMs == 500

\* a Batch Result whose average divides by the number of successful requests
batch_result_mean_of_successes(reqs, res, valid) ==
    LET successes == Cardinality({k \in 1..Len(res) : res[k].status = "success"}) IN
    [results |-> res,
     average_rating |-> IF valid # <<>> THEN py_round_2(py_sum(valid), successes) ELSE 0,
     total_requests |-> Len(reqs),
     successful_requests |-> successes,
     valid_ratings_count |-> Len(valid)]

\* lines 630-645 of get_multiple_ratings: the Batch Result
batch_result(reqs, res, valid) ==
    [results |-> res,
     average_rating |-> IF valid # <<>> THEN py_round_2(py_sum(valid), Len(valid)) ELSE 0,
     total_requests |-> Len(reqs),
     successful_requests |-> Cardinality({k \in 1..Len(res) : res[k].status = "success"}),
     valid_ratings_count |-> Len(valid)]

\* ------------------------------------------------------------------ inputs
tourist == <<"t", "o", "u", "r", "i", "s", "t">>
Alice_padded == <<" ", "A", "l", "i", "c", "e", " ">>
Usernames == {tourist, Alice_padded}

\* platform strings as a caller writes them
LeetCode_trailing == <<"L", "e", "e", "t", "C", "o", "d", "e", " ">>
CODEFORCES_leading == <<" ", "C", "O", "D", "E", "F", "O", "R", "C", "E", "S">>
CodeChef_mixed == <<"C", "o", "d", "e", "C", "h", "e", "f">>
FooBar_trailing == <<"F", "o", "o", "B", "a", "r", " ">>
PlatformStrings ==
    {LeetCode_trailing, CODEFORCES_leading, CodeChef_mixed, atcoder, FooBar_trailing, <<" ">>}

Sites == {leetcode, codeforces, codechef, atcoder}

\* what the transport can do with one request to a site
Failure(site, outcome) ==
    [site |-> site, outcome |-> outcome, status_code |-> 0, body |-> <<>>]
Http(site, status_code, body) ==
    [site |-> site, outcome |-> "response", status_code |-> status_code, body |-> body]
NoResponse == Failure(<<>>, "ConnectionError")
TransportFailures(site) ==
    {Failure(site, o) : o \in {"Timeout", "ConnectTimeout", "ConnectionError", "TooManyRedirects"}}
OtherStatusCodes == {204, 400, 404, 500}

\* JSON documents
InvalidJson == [valid |-> FALSE, json |-> None]
Json(value) == [valid |-> TRUE, json |-> value]

LeetcodeContests ==
    {None,
     PyDict([rating |-> PyInt(1500), globalRanking |-> PyInt(1200),
             attendedContestsCount |-> PyInt(7)]),
     PyDict([rating |-> None, globalRanking |-> None, attendedContestsCount |-> PyInt(0)]),
     PyDict([globalRanking |-> PyInt(1200), attendedContestsCount |-> PyInt(7)]),
     PyList(<<PyInt(1500)>>)}
LeetcodeUsers ==
    {None,
     PyDict([username |-> PyStr(tourist), profile |-> PyDict([ranking |-> PyInt(345)])]),
     PyDict([username |-> PyStr(tourist), profile |-> None]),
     PyDict([username |-> PyStr(tourist), profile |-> PyDict([realName |-> PyStr(tourist)])]),
     PyStr(tourist)}
LeetcodeBodies ==
    {InvalidJson, Json(PyList(<<>>)), Json(PyDict([errors |-> PyList(<<>>)])),
     Json(PyDict([data |-> None])), Json(PyDict([data |-> PyList(<<PyInt(1)>>)]))}
    \cup {Json(PyDict([data |-> PyDict([matchedUser |-> u, userContestRanking |-> c])])) :
            u \in LeetcodeUsers, c \in LeetcodeContests}

CodeforcesUsers ==
    {PyDict([rating |-> PyInt(1500), maxRating |-> PyInt(1800), rank |-> PyStr(tourist),
             maxRank |-> PyStr(tourist), contribution |-> PyInt(3)]),
     PyDict([rating |-> PyInt(1500), rank |-> PyStr(tourist)]),
     PyDict([rating |-> PyInt(1800), maxRating |-> PyInt(1500)]),
     PyDict([rating |-> PyInt(0 - 20), maxRating |-> PyInt(0)]),
     PyDict([rating |-> None, maxRating |-> None]),
     PyDict([handle |-> PyStr(tourist)]),
     PyStr(tourist)}
FAILED == <<"F", "A", "I", "L", "E", "D">>
CodeforcesBodies ==
    {InvalidJson, Json(PyList(<<>>)), Json(PyDict([comment |-> PyStr(tourist)])),
     Json(PyDict([status |-> PyStr(FAILED), comment |-> PyStr(tourist)])),
     Json(PyDict([status |-> PyStr(OK)])),
     Json(PyDict([status |-> PyStr(OK), result |-> PyList(<<>>)])),
     Json(PyDict([status |-> PyStr(OK), result |-> PyDict([handle |-> PyStr(tourist)])]))}
    \cup {Json(PyDict([status |-> PyStr(OK), result |-> PyList(<<u>>)])) : u \in CodeforcesUsers}

\* HTML pages
t1850 == <<"1", "8", "5", "0">>
t1234 == <<"1", "2", "3", "4">>
t2000 == <<"2", "0", "0", "0">>
dash == <<"-">>
Profile_title == <<"P", "r", "o", "f", "i", "l", "e">>
Page_Not_Found == <<"P", "a", "g", "e", " ", "N", "o", "t", " ", "F", "o", "u", "n", "d">>
PAGE_NOT_FOUND == <<"P", "A", "G", "E", " ", "N", "O", "T", " ", "F", "O", "U", "N", "D">>
Highest_2100 == <<"(", "H", "i", "g", "h", "e", "s", "t", " ", "R", "a", "t", "i", "n", "g",
                  " ", "2", "1", "0", "0", ")">>
Highest_1500 == <<"(", "H", "i", "g", "h", "e", "s", "t", " ", "R", "a", "t", "i", "n", "g",
                  " ", "1", "5", "0", "0", ")">>
Global_Rank_42 == <<"4", "2", "G", "l", "o", "b", "a", "l", " ", "R", "a", "n", "k">>
Country_Rank_7 == <<"7", "C", "o", "u", "n", "t", "r", "y", " ", "R", "a", "n", "k">>
India == <<"I", "n", "d", "i", "a">>
flag_png == <<"f", "l", "a", "g", ".", "p", "n", "g">>
five_star == <<"5", "*">>

CodechefPage(title, rating_number, parent_children, country, rating_ranks, rating) ==
    [title |-> title, rating_number |-> rating_number, parent_children |-> parent_children,
     country_flag |-> IF country THEN <<flag_png>> ELSE <<>>,
     country_name |-> IF country THEN <<India>> ELSE <<>>,
     rating_ranks |-> rating_ranks, rating |-> rating]
CodechefEmptyPage == CodechefPage(<<>>, <<>>, <<>>, FALSE, <<>>, <<>>)
CodechefBodies ==
    {CodechefEmptyPage} \cup
    {CodechefPage(title, rating_number, parent_children, country, rating_ranks, rating) :
        title \in {Profile_title, Page_Not_Found, PAGE_NOT_FOUND},
        rating_number \in {<<>>, <<t1850>>, <<dash>>},
        parent_children \in {<<t1850>>,
                             <<t1850, dash, dash, dash, Highest_2100>>,
                             <<t1850, dash, dash, dash, Highest_1500>>,
                             <<t1850, dash, dash, dash, dash>>},
        country \in BOOLEAN,
        rating_ranks \in {<<>>, << <<Global_Rank_42, Country_Rank_7>> >>,
                          << <<Country_Rank_7, dash>> >>},
        rating \in {<<>>, <<five_star>>}}

CellTexts == {Rating, Highest_Rating, Rank, Country, t1234, t2000, dash}
AtcoderBodies == {[cells |-> c] : c \in UNION {[1..n -> CellTexts] : n \in 0..MaxCells}}

Bodies(site) ==
    CASE site = leetcode -> LeetcodeBodies
      [] site = codeforces -> CodeforcesBodies
      [] site = codechef -> CodechefBodies
      [] site = atcoder -> AtcoderBodies
EmptyBody(site) ==
    CASE site = leetcode -> InvalidJson
      [] site = codeforces -> InvalidJson
      [] site = codechef -> CodechefEmptyPage
      [] site = atcoder -> [cells |-> <<>>]

\* every answer of the model to one request to a site
Responses(site) ==
    TransportFailures(site)
    \cup {Http(site, 200, b) : b \in Bodies(site)}
    \cup {Http(site, c, EmptyBody(site)) : c \in OtherStatusCodes}

\* the answers the dispatcher and the batch are driven with
SampleResponses(site) ==
    CASE site = leetcode ->
           {Failure(site, "Timeout"),
            Http(site, 200, Json(PyDict([data |-> PyDict(
                [matchedUser |-> PyDict([username |-> PyStr(tourist), profile |-> None]),
                 userContestRanking |-> PyDict([rating |-> PyInt(1500),
                     globalRanking |-> PyInt(1200), attendedContestsCount |-> PyInt(7)])])]))),
            Http(site, 200, Json(PyDict([data |-> PyDict(
                [matchedUser |-> PyDict([username |-> PyStr(tourist), profile |-> None]),
                 userContestRanking |-> PyDict([rating |-> None,
                     globalRanking |-> None, attendedContestsCount |-> PyInt(0)])])])))}
      [] site = codeforces ->
           {Http(site, 404, InvalidJson),
            Http(site, 200, Json(PyDict([status |-> PyStr(FAILED), comment |-> PyStr(tourist)]))),
            Http(site, 200, Json(PyDict([status |-> PyStr(OK), result |-> PyList(
                <<PyDict([rating |-> PyInt(1800), maxRating |-> PyInt(1900)])>>)])))}
      [] site = codechef ->
           {Http(site, 200, CodechefPage(Page_Not_Found, <<>>, <<>>, FALSE, <<>>, <<>>)),
            Http(site, 200, CodechefPage(Profile_title, <<t1850>>,
                     <<t1850, dash, dash, dash, Highest_2100>>, TRUE, <<>>, <<five_star>>))}
      [] site = atcoder ->
           {Failure(site, "ConnectionError"),
            Http(site, 200, [cells |-> <<>>]),
            Http(site, 200, [cells |-> <<Rating, t1234>>])}

\* the answers to the requests a call has sent: none when it sent none
Answers(sent) ==
    IF sent = <<>> THEN {NoResponse} ELSE Responses(sent[Len(sent)].site)
SampleAnswers(sent) ==
    IF sent = <<>> THEN {NoResponse} ELSE SampleResponses(sent[Len(sent)].site)

\* the items of a batch
BatchItems ==
    {[platform |-> LeetCode_trailing, username |-> tourist],
     [platform |-> CODEFORCES_leading, username |-> Alice_padded],
     [platform |-> CodeChef_mixed, username |-> tourist],
     [platform |-> atcoder, username |-> Alice_padded],
     [platform |-> FooBar_trailing, username |-> tourist],
     [platform |-> <<" ">>, username |-> tourist],
     [platform |-> atcoder, username |-> <<" ">>],
     [platform |-> codechef]}
Batches == UNION {[1..n -> BatchItems] : n \in 0..MaxBatch}

\* ------------------------------------------------------------ state machine
\* the adapter methods of RatingFetcher, by name
adapter(name, username, resp) ==
    CASE name = leetcode -> get_leetcode_rating(username, resp)
      [] name = codeforces -> get_codeforces_rating(username, resp)
      [] name = codechef -> get_codechef_rating(username, resp)
      [] name = atcoder -> get_atcoder_rating(username, resp)

request_events(item, sent) ==
    [k \in 1..Len(sent) |-> [ev |-> "request", item |-> item, arg |-> sent[k]]]

\* ------------------------------------------------------ src/main.py
Clients == {"10.0.0.1", "10.0.0.2"}
API_KEY == "secret"
Credentials == {API_KEY, "guess"}

HTTPException(status_code, detail) ==
    [raised |-> TRUE, status_code |-> status_code, detail |-> detail]
NoException == [raised |-> FALSE]

\* verify_api_key(credentials)
verify_api_key(credentials) ==
    IF credentials # API_KEY THEN HTTPException(401, "Invalid API key")
    ELSE NoException

\* a limiter that rejects only above the limit
rate_limit_check_above_limit(counts, client_ip, t) ==
    LET recent == SelectSeq(counts[client_ip], LAMBDA req_time : t - req_time < RATE_WINDOW)
    IN IF Len(recent) > RATE_LIMIT
       THEN HTTPException(429, "Rate limit exceeded")
                @@ [request_counts |-> [counts EXCEPT ![client_ip] = recent]]
       ELSE NoException
                @@ [request_counts |-> [counts EXCEPT ![client_ip] = Append(recent, t)]]

\* rate_limit_check(client_ip) at time t: the exception, if any, and the lists
rate_limit_check(counts, client_ip, t) ==
    LET recent == SelectSeq(counts[client_ip], LAMBDA req_time : t - req_time < RATE_WINDOW)
    IN IF Len(recent) >= RATE_LIMIT
       THEN HTTPException(429, "Rate limit exceeded")
                @@ [request_counts |-> [counts EXCEPT ![client_ip] = recent]]
       ELSE NoException
                @@ [request_counts |-> [counts EXCEPT ![client_ip] = Append(recent, t)]]

\* a cache key that changes every hour
get_cache_key_hourly(t) == t \div 3600

\* get_cache_key(): int(time.time() // 300)
get_cache_key(t) == t \div 300

\* functools.lru_cache: the entries, least recently used first
lru_has(entries, key) == \E k \in 1..Len(entries) : entries[k].key = key
lru_get(entries, key) ==
    entries[CHOOSE k \in 1..Len(entries) : entries[k].key = key].value
lru_without(entries, key) == SelectSeq(entries, LAMBDA e : e.key # key)
lru_touch(entries, key) ==
    Append(lru_without(entries, key), [key |-> key, value |-> lru_get(entries, key)])
lru_put(entries, key, value) ==
    LET room == IF Len(entries) >= CacheMaxSize THEN Tail(entries) ELSE entries
    IN Append(room, [key |-> key, value |-> value])

\* cached_single_rating(platform, username, cache_key): a hit returns the
\* stored record without a call; a miss calls the dispatcher and stores what
\* it returns (an exception is not stored)
cached_single_rating(entries, platform, username, cache_key, resp) ==
    LET key == <<platform, username, cache_key>> IN
    IF lru_has(entries, key)
    THEN [raised |-> FALSE, ret |-> lru_get(entries, key), sent |-> <<>>,
          invoked |-> FALSE, cache |-> lru_touch(entries, key)]
    ELSE LET r == get_rating_by_platform(platform, username, resp) IN
         r @@ [invoked |-> TRUE,
               cache |-> IF r.raised THEN entries ELSE lru_put(entries, key, r.ret)]

\* the body of get_single_rating and of get_single_rating_post
single_rating(entries, enabled, platform, username, t, resp) ==
    IF enabled
    THEN cached_single_rating(entries, platform, username, get_cache_key(t), resp)
    ELSE get_rating_by_platform(platform, username, resp)
             @@ [invoked |-> TRUE, cache |-> entries]

\* the checks of get_multiple_ratings (POST /ratings) on the request list
ratings_checks(reqs) ==
    IF Len(reqs) = 0 THEN HTTPException(400, "No requests provided")
    ELSE IF Len(reqs) > 20 THEN HTTPException(400, "Maximum 20 requests per batch")
    ELSE NoException

\* except Exception as e: raise HTTPException(500, "Internal server error")
except_Exception(e) == HTTPException(500, "Internal server error")

\* "name" of the entries of GET /platforms, supported_platforms of GET /
platforms_names == <<leetcode, codeforces, codechef>>
supported_platforms == <<leetcode, codeforces, codechef>>
rate_limit_text == [requests |-> RATE_LIMIT, minutes |-> RATE_WINDOW \div 60]

\* what a client sends
HttpClients == {"10.0.0.1"}
HttpKeys == {<<CODEFORCES_leading, tourist>>, <<FooBar_trailing, Alice_padded>>}
HttpItem(platform, username) == [platform |-> platform, username |-> username]
HttpBatches ==
    {<<>>,
     <<HttpItem(LeetCode_trailing, tourist)>>,
     [k \in 1..21 |-> HttpItem(FooBar_trailing, tourist)]}
TickSteps == {150}

Response(endpoint, status_code, detail, body) ==
    [endpoint |-> endpoint, status_code |-> status_code, detail |-> detail,
     body |-> body, rank |-> 0, previous |-> <<>>]
NoResponseYet(endpoint) == Response(endpoint, 0, "", <<>>)

ServiceInit ==
    /\ now = 0
    /\ request_counts = [c \in Clients |-> <<>>]
    /\ cache = <<>>
    /\ http = NoResponseYet("none")
    /\ lookups = <<>>
    /\ accepted = [c \in Clients |-> <<>>]

FetcherInit ==
    /\ pc = "idle"
    /\ call = [op |-> "none"]
    /\ out = [raised |-> FALSE]
    /\ trace = <<>>
    /\ requests_data = <<>>
    /\ i = 0
    /\ results = <<>>
    /\ valid_ratings = <<>>

Init ==
    /\ FetcherInit
    /\ ServiceInit
    /\ ENABLE_CACHE = TRUE

\* one call of get_<platform>_rating(username)
CallAdapter ==
    /\ pc = "idle"
    /\ \E name \in Sites, username \in Usernames :
        \E resp \in Answers(adapter(name, username, NoResponse).sent) :
            LET r == adapter(name, username, resp) IN
            /\ call' = [op |-> "adapter", platform |-> name, username |-> username,
                        resp |-> resp]
            /\ out' = r
            /\ trace' = request_events(0, r.sent)
    /\ pc' = "returned"
    /\ UNCHANGED <<requests_data, i, results, valid_ratings>>
    /\ UNCHANGED service

\* one call of get_rating_by_platform(platform, username)
CallDispatcher ==
    /\ pc = "idle"
    /\ \E platform \in PlatformStrings, username \in Usernames :
        \E resp \in SampleAnswers(get_rating_by_platform(platform, username, NoResponse).sent) :
            LET r == get_rating_by_platform(platform, username, resp) IN
            /\ call' = [op |-> "dispatch", platform |-> platform, username |-> username,
                        resp |-> resp]
            /\ out' = r
            /\ trace' = request_events(0, r.sent)
    /\ pc' = "returned"
    /\ UNCHANGED <<requests_data, i, results, valid_ratings>>
    /\ UNCHANGED service

\* get_multiple_ratings(requests_data) is entered
StartBatch ==
    /\ pc = "idle"
    /\ \E reqs \in Batches : requests_data' = reqs
    /\ call' = [op |-> "batch"]
    /\ out' = [raised |-> FALSE]
    /\ trace' = <<>>
    /\ i' = 0
    /\ results' = <<>>
    /\ valid_ratings' = <<>>
    /\ pc' = "loop"
    /\ UNCHANGED service

\* one iteration of the for loop of get_multiple_ratings
BatchStep ==
    /\ pc = "loop"
    /\ i < Len(requests_data)
    /\ LET request == requests_data[i + 1]
           platform == item_platform(request)
           username == item_username(request)
       IN
       IF platform = <<>> \/ username = <<>>
       THEN /\ results' = Append(results, error_record(platform, username, "error",
                                     Platform_and_username_are_required))
            /\ i' = i + 1
            /\ UNCHANGED <<pc, out, trace, valid_ratings>>
       ELSE \E resp \in SampleAnswers(get_rating_by_platform(platform, username, NoResponse).sent) :
            LET sleeps == IF i + 1 > 1
                          THEN <<[ev |-> "sleep", item |-> i + 1, arg |-> PacingDelayMs]>>
                          ELSE <<>>
                r == get_rating_by_platform(platform, username, resp)
                rating_data == r.ret
            IN
            /\ trace' = trace \o sleeps
                          \o <<[ev |-> "dispatch", item |-> i + 1, arg |-> platform]>>
                          \o request_events(i + 1, r.sent)
            /\ IF r.raised
               THEN /\ pc' = "raised"
                    /\ out' = [raised |-> TRUE, exc |-> r.exc]
                    /\ UNCHANGED <<i, results, valid_ratings>>
               ELSE /\ results' = Append(results, rating_data)
                    /\ IF rating_data.status = "success" /\ gt_raises(rating_data.rating)
                       THEN /\ pc' = "raised"
                            /\ out' = Raise("TypeError", msg_of("TypeError"))
                            /\ UNCHANGED <<i, valid_ratings>>
                       ELSE /\ valid_ratings' =
                                  IF rating_data.status = "success" /\ rating_data.rating.v > 0
                                  THEN Append(valid_ratings, rating_data.rating.v)
                                  ELSE valid_ratings
                            /\ i' = i + 1
                            /\ UNCHANGED <<pc, out>>
    /\ UNCHANGED <<call, requests_data>>
    /\ UNCHANGED service

\* the for loop is over: get_multiple_ratings returns the Batch Result
BatchReturn ==
    /\ pc = "loop"
    /\ i = Len(requests_data)
    /\ out' = Return(batch_result(requests_data, results, valid_ratings))
    /\ pc' = "done"
    /\ UNCHANGED <<call, trace, requests_data, i, results, valid_ratings>>
    /\ UNCHANGED service

\* the caller has the outcome of its call; the fetcher keeps nothing of it
\* and takes the next call
NextCall ==
    /\ pc \in {"returned", "done", "raised"}
    /\ pc' = "idle"
    /\ call' = [op |-> "none"]
    /\ out' = [raised |-> FALSE]
    /\ trace' = <<>>
    /\ requests_data' = <<>>
    /\ i' = 0
    /\ results' = <<>>
    /\ valid_ratings' = <<>>
    /\ UNCHANGED service

Next ==
    CallAdapter \/ CallDispatcher \/ StartBatch \/ BatchStep \/ BatchReturn \/ NextCall

Spec == Init /\ [][Next]_vars

\* ------------------------------------------------- the service's endpoints
\* the time bucket of an instant: the b with 300 b <= t < 300 (b + 1)
TimeBucket(t) == CHOOSE b \in 0..t : 300 * b <= t /\ t < 300 * (b + 1)
\* place of a key among the keys looked up, 1 for the most recent, 0 if absent
RankOf(seen, key) ==
    IF \E k \in 1..Len(seen) : seen[k].key = key
    THEN Len(seen) + 1 - (CHOOSE k \in 1..Len(seen) : seen[k].key = key)
    ELSE 0
ValueOf(seen, key) ==
    IF RankOf(seen, key) = 0 THEN <<>> ELSE seen[Len(seen) + 1 - RankOf(seen, key)].value

\* GET /rating/{platform}/{username} and POST /rating: the API key check, then
\* the handler's try block
SingleRating(endpoint) ==
    /\ \E client \in HttpClients, key \in HttpKeys, credentials \in Credentials :
        LET platform == key[1]
            username == key[2]
            auth == verify_api_key(credentials)
        IN
        /\ Len(accepted[client]) < MaxRequests
        /\ call' = [op |-> endpoint, client |-> client, platform |-> platform,
                    username |-> username, credentials |-> credentials, at |-> now]
        /\ IF auth.raised
           THEN /\ http' = Response(endpoint, auth.status_code, auth.detail, <<>>)
                /\ trace' = <<>>
                /\ UNCHANGED <<cache, lookups, accepted>>
           ELSE \E resp \in SampleAnswers(
                        single_rating(cache, ENABLE_CACHE, platform, username, now, NoResponse).sent) :
                LET r == single_rating(cache, ENABLE_CACHE, platform, username, now, resp)
                    looked_up == <<platform, username, TimeBucket(now)>>
                IN
                /\ trace' = (IF r.invoked
                             THEN <<[ev |-> "dispatch", item |-> 0, arg |-> platform]>>
                             ELSE <<>>) \o request_events(0, r.sent)
                /\ cache' = r.cache
                /\ IF r.raised
                   THEN /\ http' = Response(endpoint, except_Exception(r).status_code,
                                            except_Exception(r).detail, <<>>)
                        /\ UNCHANGED <<lookups, accepted>>
                   ELSE /\ http' = [Response(endpoint, 200, "", r.ret) EXCEPT
                                       !.rank = RankOf(lookups, looked_up),
                                       !.previous = ValueOf(lookups, looked_up)]
                        /\ lookups' = IF ENABLE_CACHE
                                      THEN Append(lru_without(lookups, looked_up),
                                                  [key |-> looked_up, value |-> r.ret])
                                      ELSE lookups
                        /\ accepted' = [accepted EXCEPT ![client] = Append(@, now)]
    /\ UNCHANGED <<pc, out, requests_data, i, results, valid_ratings>>
    /\ UNCHANGED <<now, request_counts, ENABLE_CACHE>>

GetSingleRating ==
    /\ pc = "idle"
    /\ SingleRating("GET /rating/{platform}/{username}")

PostSingleRating ==
    /\ pc = "idle"
    /\ SingleRating("POST /rating")

\* POST /ratings up to the call of rating_fetcher.get_multiple_ratings
PostRatings ==
    /\ pc = "idle"
    /\ \E client \in HttpClients, reqs \in HttpBatches, credentials \in Credentials :
        LET auth == verify_api_key(credentials)
            checks == ratings_checks(reqs)
        IN
        /\ Len(accepted[client]) < MaxRequests
        /\ call' = [op |-> "POST /ratings", client |-> client, requests |-> reqs,
                    credentials |-> credentials, at |-> now]
        /\ trace' = <<>>
        /\ IF auth.raised
           THEN /\ http' = Response("POST /ratings", auth.status_code, auth.detail, <<>>)
                /\ UNCHANGED <<pc, requests_data>>
           ELSE IF checks.raised
           THEN /\ http' = Response("POST /ratings", except_Exception(checks).status_code,
                                    except_Exception(checks).detail, <<>>)
                /\ UNCHANGED <<pc, requests_data>>
           ELSE /\ http' = NoResponseYet("POST /ratings")
                /\ requests_data' = reqs
                /\ pc' = "loop"
    /\ UNCHANGED <<out, i, results, valid_ratings>>
    /\ UNCHANGED <<now, request_counts, cache, ENABLE_CACHE, lookups, accepted>>

\* POST /ratings after get_multiple_ratings: its result, or the except clause
PostRatingsRespond ==
    /\ pc \in {"done", "raised"}
    /\ call.op = "POST /ratings"
    /\ IF pc = "done"
       THEN /\ http' = Response("POST /ratings", 200, "", out.ret)
            /\ accepted' = [accepted EXCEPT ![call.client] = Append(@, call.at)]
       ELSE /\ http' = Response("POST /ratings", except_Exception(out).status_code,
                                except_Exception(out).detail, <<>>)
            /\ UNCHANGED accepted
    /\ pc' = "idle"
    /\ out' = [raised |-> FALSE]
    /\ requests_data' = <<>>
    /\ i' = 0
    /\ results' = <<>>
    /\ valid_ratings' = <<>>
    /\ UNCHANGED <<call, trace>>
    /\ UNCHANGED <<now, request_counts, cache, ENABLE_CACHE, lookups>>

\* GET /platforms
GetPlatforms ==
    /\ pc = "idle"
    /\ call' = [op |-> "GET /platforms"]
    /\ http' = Response("GET /platforms", 200, "", platforms_names)
    /\ trace' = <<>>
    /\ UNCHANGED <<pc, out, requests_data, i, results, valid_ratings>>
    /\ UNCHANGED <<now, request_counts, cache, ENABLE_CACHE, lookups, accepted>>

\* GET /
Root ==
    /\ pc = "idle"
    /\ call' = [op |-> "GET /"]
    /\ http' = Response("GET /", 200, "",
                        [supported_platforms |-> supported_platforms,
                         rate_limit |-> rate_limit_text])
    /\ trace' = <<>>
    /\ UNCHANGED <<pc, out, requests_data, i, results, valid_ratings>>
    /\ UNCHANGED <<now, request_counts, cache, ENABLE_CACHE, lookups, accepted>>

\* time passes between two requests
Tick ==
    /\ pc = "idle"
    /\ \E d \in TickSteps : now + d <= MaxClock /\ now' = now + d
    /\ UNCHANGED fetcher
    /\ UNCHANGED <<request_counts, cache, ENABLE_CACHE, http, lookups, accepted>>

\* one call of rate_limit_check(client_ip)
RateLimitCheck ==
    /\ pc = "idle"
    /\ \E client_ip \in Clients :
        LET r == rate_limit_check(request_counts, client_ip, now) IN
        /\ call' = [op |-> "rate_limit_check", client |-> client_ip, at |-> now]
        /\ request_counts' = r.request_counts
        /\ http' = IF r.raised
                   THEN Response("rate_limit_check", r.status_code, r.detail, <<>>)
                   ELSE Response("rate_limit_check", 200, "", <<>>)
        /\ accepted' = IF r.raised THEN accepted
                       ELSE [accepted EXCEPT ![client_ip] = Append(@, now)]
    /\ UNCHANGED <<pc, out, trace, requests_data, i, results, valid_ratings>>
    /\ UNCHANGED <<now, cache, ENABLE_CACHE, lookups>>

InitHttp ==
    /\ FetcherInit
    /\ ServiceInit
    /\ ENABLE_CACHE \in BOOLEAN

NextHttp ==
    \/ GetSingleRating \/ PostSingleRating
    \/ PostRatings \/ BatchStep \/ BatchReturn \/ PostRatingsRespond
    \/ GetPlatforms \/ Root \/ Tick

\* the service as deployed: the endpoints, none of which calls rate_limit_check
SpecHttp == InitHttp /\ [][NextHttp]_vars

NextRate == RateLimitCheck \/ Tick

\* rate_limit_check called on its own, as a caller of the function would
SpecRate == Init /\ [][NextRate]_vars

\* ------------------------------------------------------------------ claims
AdapterReturned == pc = "returned" /\ call.op = "adapter"
DispatcherReturned == pc = "returned" /\ call.op = "dispatch"
Completed(resp) == resp.outcome = "response"
IsJsonSite(site) == site \in {leetcode, codeforces}
Statuses == {"success", "user_not_found", "error"}
Known(x) == x.t = "int"

\* C1: every Rating Record an adapter returns that carries both a rating and a
\* max_rating has max_rating >= rating, whatever the source sent.
C1_MaxRatingAtLeastRating ==
    (AdapterReturned /\ ~out.raised /\ "max_rating" \in DOMAIN out.ret
        /\ Known(out.ret.rating) /\ Known(out.ret.max_rating))
    => out.ret.max_rating.v >= out.ret.rating.v

\* C2: an adapter call never raises to its caller; for every username and every
\* transport outcome it returns a record whose status is success,
\* user_not_found or error.
C2_AdapterNeverRaises ==
    AdapterReturned => (~out.raised /\ out.ret.status \in Statuses)

\* C2's case: the source answered 200 with a JSON document of an unexpected
\* shape (or no JSON at all) and the adapter returned an error record.
C2_Witness ==
    /\ AdapterReturned
    /\ IsJsonSite(call.platform)
    /\ Completed(call.resp)
    /\ call.resp.status_code = 200
    /\ \/ ~call.resp.body.valid
       \/ call.resp.body.json.t # "dict"
    /\ ~out.raised
    /\ out.ret.status = "error"

\* C3: when the transport call completes with a non-2xx HTTP status, the
\* adapter returns status user_not_found, not status error.
C3_Non2xxIsUserNotFound ==
    (AdapterReturned /\ Completed(call.resp)
        /\ ~(200 <= call.resp.status_code /\ call.resp.status_code < 300))
    => (~out.raised /\ out.ret.status = "user_not_found")

\* the error key is present iff status is not success
ErrorIffNotSuccess(rec) == ("error" \in DOMAIN rec) <=> (rec.status # "success")

\* C4: in every Rating Record produced by an adapter, by the dispatcher or by the
\* batch orchestrator, the error field is present iff status is not success.
C4_ErrorIffNotSuccess ==
    /\ (pc = "returned" /\ ~out.raised) => ErrorIffNotSuccess(out.ret)
    /\ \A k \in 1..Len(results) : ErrorIffNotSuccess(results[k])
    /\ pc = "done" => \A k \in 1..Len(out.ret.results) : ErrorIffNotSuccess(out.ret.results[k])

\* C4's case: a returned batch holding a success record, an adapter's failure
\* record and a record the orchestrator made itself.
C4_Witness ==
    /\ pc = "done"
    /\ \E a, b, c \in 1..Len(out.ret.results) :
        /\ out.ret.results[a].status = "success"
        /\ out.ret.results[b].status = "user_not_found"
        /\ "error" \in DOMAIN out.ret.results[c]
        /\ out.ret.results[c].error = Platform_and_username_are_required

\* the platform string trimmed, then lowercased
Normalized(platform) == str_lower(str_strip(platform))
RequestsIn(tr) == SelectSeq(tr, LAMBDA e : e.ev = "request")

\* C5: the dispatcher trims and lowercases the platform string; if the result is
\* one of the four platform names the adapter of that name is invoked, and
\* otherwise no network call is made and the record is {platform: normalized
\* string, rating 0, status error, error "Unsupported platform: <normalized>"}.
C5_DispatcherRoutes ==
    DispatcherReturned =>
        LET p == Normalized(call.platform) IN
        /\ ~out.raised
        /\ out.ret.platform = p
        /\ out.ret.username = call.username
        /\ IF p \in Sites
           THEN /\ Len(RequestsIn(trace)) = 1
                /\ RequestsIn(trace)[1].arg.site = p
           ELSE /\ trace = <<>>
                /\ out.ret = [platform |-> p, username |-> call.username,
                              rating |-> PyInt(0), status |-> "error",
                              error |-> Unsupported_platform \o p]

\* C5's case: "FooBar " is dispatched.
C5_Witness ==
    /\ DispatcherReturned
    /\ call.platform = FooBar_trailing
    /\ out.ret.platform = <<"f", "o", "o", "b", "a", "r">>
    /\ out.ret.error = Unsupported_platform \o <<"f", "o", "o", "b", "a", "r">>
    /\ trace = <<>>

\* C5's second case: a padded, mixed-case name of a supported platform.
C5_WitnessSupported ==
    /\ DispatcherReturned
    /\ call.platform = CODEFORCES_leading
    /\ out.ret.platform = codeforces
    /\ Len(trace) = 1

Malformed(request) ==
    \/ Normalized(request_get(request, "platform")) = <<>>
    \/ str_strip(request_get(request, "username")) = <<>>

\* C6: the returned Batch Result has total_requests = N and N results, the k-th
\* record is the record for the k-th item (its platform the trimmed, lowercased
\* platform of the item, its username the trimmed username), and a malformed
\* item yields one error record at its own position.
C6_OneRecordPerItemInOrder ==
    /\ Len(results) <= Len(requests_data)
    /\ \A k \in 1..Len(results) :
        /\ results[k].platform = Normalized(request_get(requests_data[k], "platform"))
        /\ results[k].username = str_strip(request_get(requests_data[k], "username"))
        /\ Malformed(requests_data[k]) =>
              /\ results[k].status = "error"
              /\ results[k].error = Platform_and_username_are_required
    /\ pc = "done" =>
        /\ out.ret.total_requests = Len(requests_data)
        /\ Len(out.ret.results) = Len(requests_data)
        /\ out.ret.results = results

\* C6's case: a returned batch of three items, the second malformed, the others
\* written with padding and capitals.
C6_Witness ==
    /\ pc = "done"
    /\ Len(requests_data) = 3
    /\ requests_data[1].platform = CODEFORCES_leading
    /\ Malformed(requests_data[2])
    /\ requests_data[3].platform = FooBar_trailing
    /\ out.ret.results[1].username = <<"A", "l", "i", "c", "e">>
    /\ out.ret.results[2].error = Platform_and_username_are_required

Counted(rec) == rec.status = "success" /\ Known(rec.rating) /\ rec.rating.v > 0
RECURSIVE SumCounted(_)
SumCounted(res) ==
    IF res = <<>> THEN 0
    ELSE (IF Counted(Head(res)) THEN Head(res).rating.v ELSE 0) + SumCounted(Tail(res))
Abs(x) == IF x < 0 THEN 0 - x ELSE x

\* C7: in every Batch Result valid_ratings_count is the number of records with
\* status success and rating > 0, successful_requests the number with status
\* success, and average_rating the mean rating of the former rounded to two
\* decimals (the nearest hundredth), or 0 when there is none.
C7_Aggregates ==
    pc = "done" =>
        LET res == out.ret.results
            n == Cardinality({k \in 1..Len(res) : Counted(res[k])})
        IN
        /\ out.ret.valid_ratings_count = n
        /\ out.ret.successful_requests =
               Cardinality({k \in 1..Len(res) : res[k].status = "success"})
        /\ n = 0 => out.ret.average_rating = 0
        /\ n > 0 => 2 * Abs(100 * SumCounted(res) - n * out.ret.average_rating) <= n

\* C7's case: ratings 1500, an error record with 0, 1800: average 1650.00 over
\* 2 valid ratings.
C7_Witness ==
    /\ pc = "done"
    /\ Len(out.ret.results) = 3
    /\ out.ret.results[1].status = "success" /\ out.ret.results[1].rating = PyInt(1500)
    /\ out.ret.results[2].status = "error" /\ out.ret.results[2].rating = PyInt(0)
    /\ out.ret.results[3].status = "success" /\ out.ret.results[3].rating = PyInt(1800)
    /\ out.ret.average_rating = 165000
    /\ out.ret.valid_ratings_count = 2
    /\ out.ret.successful_requests = 2

\* C7's second case: the mean is not a whole number of hundredths.
C7_WitnessRounded ==
    /\ pc = "done"
    /\ out.ret.valid_ratings_count = 3
    /\ out.ret.average_rating * 3 > 100 * SumCounted(out.ret.results)

\* C7's third case: a success record with rating 0 is a successful request and
\* no valid rating.
C7_WitnessZeroRating ==
    /\ pc = "done"
    /\ out.ret.successful_requests > out.ret.valid_ratings_count
    /\ out.ret.valid_ratings_count > 0

EventsOf(ev, k) == SelectSeq(trace, LAMBDA e : e.ev = ev /\ e.item = k)
FirstNetworkBound(k) ==
    /\ ~Malformed(requests_data[k])
    /\ \A j \in 1..(k - 1) : Malformed(requests_data[j])

\* C8: within one batch the first item that passes validation is dispatched
\* with no pacing delay before it, however many malformed items precede it;
\* every later item that passes validation is preceded by exactly one delay
\* of 0.5; a malformed item causes no delay and no dispatcher call.
C8_PacingBetweenNetworkItems ==
    call.op = "batch" =>
        \A k \in 1..i :
            IF Malformed(requests_data[k])
            THEN EventsOf("sleep", k) = <<>> /\ EventsOf("dispatch", k) = <<>>
            ELSE /\ Len(EventsOf("dispatch", k)) = 1
                 /\ IF FirstNetworkBound(k)
                    THEN EventsOf("sleep", k) = <<>>
                    ELSE /\ Len(EventsOf("sleep", k)) = 1
                         /\ EventsOf("sleep", k)[1].arg = PacingDelayMs

\* C9: a batch never aborts part-way: whatever record an adapter returns for an
\* item, the orchestrator goes on to the later items and returns a Batch Result.
C9_BatchNeverAborts ==
    call.op = "batch" => pc # "raised"

\* C10: each adapter call issues exactly one outbound network request, on every
\* path (success, user_not_found, timeout, connection failure, parse failure).
C10_OneRequestPerAdapterCall ==
    AdapterReturned =>
        /\ Len(trace) = 1
        /\ trace[1].ev = "request"
        /\ trace[1].arg.site = call.platform

\* C10's case: the request timed out, and no second one was sent.
C10_Witness ==
    /\ AdapterReturned
    /\ call.resp.outcome = "Timeout"
    /\ ~out.raised
    /\ out.ret.error = Request_timeout
    /\ Len(RequestsIn(trace)) = 1

Is2xx(resp) == 200 <= resp.status_code /\ resp.status_code < 300

\* a CodeChef page with none of the elements the adapter selects and no marker
CodechefNoMarkup(page) ==
    /\ page.rating_number = <<>>
    /\ page.country_flag = <<>>
    /\ page.country_name = <<>>
    /\ page.rating_ranks = <<>>
    /\ page.rating = <<>>
    /\ ~str_contains(str_lower(codechef_html_content(page)), page_not_found)

\* an AtCoder page none of whose cells is a label of the scan
AtcoderNoMarkup(page) ==
    \A k \in 1..Len(page.cells) :
        /\ str_strip(page.cells[k]) # Rating
        /\ ~str_contains(page.cells[k], Highest_Rating)
        /\ ~str_contains(page.cells[k], Rank)
        /\ ~str_contains(page.cells[k], Country)

\* C14: the CodeChef and AtCoder adapters, given a 2xx response whose body has
\* none of the markup they look for (and, for CodeChef, no not-found marker),
\* return rating 0, max_rating 0, status success and every other field at its
\* default, not an error record.
C14_NoMarkupIsSuccessWithDefaults ==
    (AdapterReturned /\ Completed(call.resp) /\ Is2xx(call.resp)) =>
        /\ (call.platform = codechef /\ CodechefNoMarkup(call.resp.body)) =>
              /\ ~out.raised
              /\ out.ret = [platform |-> codechef, username |-> call.username,
                            rating |-> PyInt(0), max_rating |-> PyInt(0),
                            country_flag |-> PyStr(<<>>), country_name |-> PyStr(<<>>),
                            global_rank |-> PyInt(0), country_rank |-> PyInt(0),
                            stars |-> PyStr(unrated), status |-> "success"]
        /\ (call.platform = atcoder /\ AtcoderNoMarkup(call.resp.body)) =>
              /\ ~out.raised
              /\ out.ret = [platform |-> atcoder, username |-> call.username,
                            rating |-> PyInt(0), max_rating |-> PyInt(0),
                            rank |-> PyInt(0), country |-> PyStr(<<>>),
                            status |-> "success"]

\* C14's case: an AtCoder page whose cells hold numbers and no label.
C14_Witness ==
    /\ AdapterReturned
    /\ call.platform = atcoder
    /\ Completed(call.resp)
    /\ call.resp.status_code = 200
    /\ Len(call.resp.body.cells) >= 2
    /\ call.resp.body.cells[1] = t1234
    /\ AtcoderNoMarkup(call.resp.body)
    /\ out.ret.status = "success"
    /\ out.ret.rating = PyInt(0)

\* C14's second case: a CodeChef page with a title and nothing else.
C14_WitnessCodechef ==
    /\ AdapterReturned
    /\ call.platform = codechef
    /\ Completed(call.resp)
    /\ call.resp.status_code = 200
    /\ call.resp.body.title = Profile_title
    /\ CodechefNoMarkup(call.resp.body)
    /\ out.ret.status = "success"

\* C16: the CodeChef adapter returns user_not_found if the response has HTTP
\* status 404 or the body contains 'page not found' in any letter case; no field
\* is extracted and rating is 0.
C16_CodechefNotFound ==
    (AdapterReturned /\ call.platform = codechef /\ Completed(call.resp)
        /\ \/ call.resp.status_code = 404
           \/ str_contains(str_lower(codechef_html_content(call.resp.body)), page_not_found))
    => /\ ~out.raised
       /\ out.ret = [platform |-> codechef, username |-> call.username,
                     rating |-> PyInt(0), status |-> "user_not_found",
                     error |-> User_not_found]

Min(a, b) == IF a < b THEN a ELSE b
Max(a, b) == IF a < b THEN b ELSE a
ZeroScan == [rating |-> 0, max_rating |-> 0, rank |-> 0]
CellDigits(cells, k) ==
    IF k <= Len(cells) THEN re_sub_non_digits(str_strip(cells[k])) ELSE <<>>

\* the first cell whose trimmed text equals "Rating", Len + 1 when there is none
FirstRatingCell(cells) ==
    IF \E k \in 1..Len(cells) : str_strip(cells[k]) = Rating
    THEN CHOOSE k \in 1..Len(cells) :
            /\ str_strip(cells[k]) = Rating
            /\ \A j \in 1..(k - 1) : str_strip(cells[j]) # Rating
    ELSE Len(cells) + 1

\* the first cell that equals "Rating" or contains "Highest Rating"
FirstRatingOrHighestCell(cells) ==
    LET stops == {k \in 1..Len(cells) :
                     \/ str_strip(cells[k]) = Rating
                     \/ str_contains(str_strip(cells[k]), Highest_Rating)}
    IN IF stops = {} THEN Len(cells) + 1
       ELSE CHOOSE k \in stops : \A j \in stops : k <= j

\* the number after the last cell before `stop` that satisfies Label and is
\* followed by a cell with digits; 0 when there is none
LastLabelled(cells, stop, Label(_)) ==
    LET hits == {k \in 1..(stop - 1) : Label(str_strip(cells[k])) /\ CellDigits(cells, k + 1) # <<>>}
    IN IF hits = {} THEN 0
       ELSE py_int(CellDigits(cells, (CHOOSE k \in hits : \A j \in hits : j <= k) + 1))

IsHighestLabel(text) == str_contains(text, Highest_Rating)
IsRankLabel(text) == ~str_contains(text, Highest_Rating) /\ str_contains(text, Rank)

AtcoderParsed ==
    /\ AdapterReturned
    /\ call.platform = atcoder
    /\ ~out.raised
    /\ out.ret.status = "success"

\* C17 as amended: the scan stops at the first cell whose trimmed text equals
\* "Rating" (the next cell gives the rating); a cell containing "Highest Rating"
\* or "Rank" does not stop it, and of several such labels before the "Rating"
\* cell the last one followed by a number wins; no cell after the "Rating" cell
\* and its value changes rating, max_rating or rank.
C17_ScanStopsAtRatingOnly ==
    AtcoderParsed =>
        LET cells == call.resp.body.cells
            stop == FirstRatingCell(cells)
            rating == IF CellDigits(cells, stop + 1) # <<>>
                      THEN py_int(CellDigits(cells, stop + 1)) ELSE 0
        IN
        /\ out.ret.rating = PyInt(rating)
        /\ out.ret.rank = PyInt(LastLabelled(cells, stop, IsRankLabel))
        /\ out.ret.max_rating =
               PyInt(Max(rating, LastLabelled(cells, stop, IsHighestLabel)))

\* C17's case: a "Rank" label after the "Rating" cell is not read, and the
\* "Highest Rating" label before it did not stop the scan.
C17_Witness ==
    /\ AtcoderParsed
    /\ call.resp.body.cells = <<Highest_Rating, Rating, t1234>>
    /\ out.ret.rating = PyInt(1234)

\* C17's second case: a label after the "Rating" cell changes nothing.
C17_WitnessAfterStop ==
    /\ AtcoderParsed
    /\ call.resp.body.cells = <<Rating, Rank, t1234>>
    /\ out.ret.rank = PyInt(0)
    /\ out.ret.rating = PyInt(0)

\* C17: a cell equal to "Rating" stops the scan and a cell containing "Highest
\* Rating" also stops it, while "Rank" does not: no cell after the stopping
\* cell (and the value next to it) changes rating, max_rating or rank.
C17_ScanStopsAtRatingOrHighest ==
    AtcoderParsed =>
        LET cells == call.resp.body.cells
            stop == FirstRatingOrHighestCell(cells)
            read == atcoder_scan(SubSeq(cells, 1, Min(stop + 1, Len(cells))), 1, ZeroScan)
        IN
        /\ out.ret.rating = PyInt(read.rating)
        /\ out.ret.rank = PyInt(read.rank)
        /\ out.ret.max_rating = PyInt(Max(read.rating, read.max_rating))

\* a Codeforces answer the claim speaks of: 200, a JSON object with a status
\* field, whose result, if any, is a list of objects
CodeforcesAnswered ==
    /\ AdapterReturned
    /\ call.platform = codeforces
    /\ Completed(call.resp)
    /\ call.resp.status_code = 200
    /\ call.resp.body.valid
    /\ call.resp.body.json.t = "dict"
    /\ "status" \in DOMAIN call.resp.body.json.v
    /\ "result" \in DOMAIN call.resp.body.json.v =>
          /\ call.resp.body.json.v["result"].t = "list"
          /\ \A k \in 1..Len(call.resp.body.json.v["result"].v) :
                call.resp.body.json.v["result"].v[k].t = "dict"
FieldOr(d, key, default) == IF key \in DOMAIN d THEN d[key] ELSE default

\* C18: the Codeforces adapter returns success exactly when the status field is
\* 'OK' and the result list is not empty; for every other completed response
\* (status not 'OK', result empty or absent) it returns user_not_found; on
\* success rating, max_rating, contribution default to 0 and rank, max_rank to
\* 'unrated'.
C18_CodeforcesSuccessOrNotFound ==
    CodeforcesAnswered =>
        LET doc == call.resp.body.json.v
            found == /\ doc["status"] = PyStr(OK)
                     /\ "result" \in DOMAIN doc
                     /\ Len(doc["result"].v) > 0
        IN
        /\ ~out.raised
        /\ IF found
           THEN LET user == doc["result"].v[1].v IN
                out.ret = [platform |-> codeforces, username |-> call.username,
                           rating |-> FieldOr(user, "rating", PyInt(0)),
                           max_rating |-> FieldOr(user, "maxRating", PyInt(0)),
                           rank |-> FieldOr(user, "rank", PyStr(unrated)),
                           max_rank |-> FieldOr(user, "maxRank", PyStr(unrated)),
                           contribution |-> FieldOr(user, "contribution", PyInt(0)),
                           status |-> "success"]
           ELSE out.ret.status = "user_not_found"

Range(seq) == {seq[k] : k \in 1..Len(seq)}
SingleRatingEndpoints == {"GET /rating/{platform}/{username}", "POST /rating"}
\* a single-fetch request was answered 200
SingleRatingServed ==
    /\ call.op \in SingleRatingEndpoints
    /\ http.endpoint = call.op
    /\ http.status_code = 200
\* calls of the dispatcher made for the last request
DispatcherCalls == Cardinality({k \in 1..Len(trace) : trace[k].ev = "dispatch"})

\* C11 as amended: with caching enabled the single-fetch entry point is
\* memoized on (platform, username, time_bucket), time_bucket being the time in
\* seconds divided by 300 and rounded down, in a cache that keeps only the most
\* recently used keys, up to its capacity (1000 in the source): a request whose
\* key is still among them invokes no dispatcher call and gets the record last
\* served for that key, whatever its status; a request whose key was never
\* looked up (a new time bucket included) or has since been displaced by that
\* many other keys invokes the dispatcher exactly once.
C11_MemoizedWhileKept ==
    (ENABLE_CACHE /\ SingleRatingServed) =>
        /\ (http.rank >= 1 /\ http.rank <= CacheMaxSize) =>
              /\ DispatcherCalls = 0
              /\ http.body = http.previous
        /\ (http.rank = 0 \/ http.rank > CacheMaxSize) => DispatcherCalls = 1

\* C11's case: a second request for a key in the same bucket is served the
\* stored user_not_found record without a dispatcher call.
C11_Witness ==
    /\ ENABLE_CACHE
    /\ SingleRatingServed
    /\ http.rank = 1
    /\ DispatcherCalls = 0
    /\ http.body.status = "user_not_found"

\* C11's second case: the same platform and username in a later bucket.
C11_WitnessNewBucket ==
    /\ ENABLE_CACHE
    /\ SingleRatingServed
    /\ http.rank = 0
    /\ DispatcherCalls = 1
    /\ \E k \in 1..Len(lookups) :
          /\ lookups[k].key[1] = call.platform
          /\ lookups[k].key[2] = call.username
          /\ lookups[k].key[3] < TimeBucket(call.at)

\* C11's third case: the key was looked up in this bucket and displaced since.
C11_WitnessDisplaced ==
    /\ ENABLE_CACHE
    /\ SingleRatingServed
    /\ http.rank > CacheMaxSize
    /\ DispatcherCalls = 1

\* C11: with caching enabled, two single-fetch requests with the same platform
\* and username strings in the same time bucket invoke the dispatcher once and
\* return the same record; a request in a different bucket invokes it again.
C11_MemoizedPerBucket ==
    (ENABLE_CACHE /\ SingleRatingServed) =>
        /\ http.rank >= 1 =>
              /\ DispatcherCalls = 0
              /\ http.body = http.previous
        /\ http.rank = 0 => DispatcherCalls = 1

\* C12: POST /ratings with an empty request list or with more than 20 items is
\* rejected with HTTP 400 (details 'No requests provided' / 'Maximum 20
\* requests per batch'); the orchestrator is not invoked and no network call
\* is made.
C12_BadBatchSizeIs400 ==
    (/\ call.op = "POST /ratings"
     /\ call.credentials = API_KEY
     /\ Len(call.requests) = 0 \/ Len(call.requests) > 20)
    => /\ http.endpoint = "POST /ratings"
       /\ http.status_code = 400
       /\ Len(call.requests) = 0 => http.detail = "No requests provided"
       /\ Len(call.requests) > 20 => http.detail = "Maximum 20 requests per batch"
       /\ pc = "idle"
       /\ trace = <<>>
       /\ results = <<>>

\* accepted requests of a client in the window that ends at T
AcceptedInWindow(client, T) ==
    Cardinality({k \in 1..Len(accepted[client]) :
                    /\ accepted[client][k] <= T
                    /\ T - accepted[client][k] < RATE_WINDOW})

\* C13: the advertised rate limit is enforced on the rating endpoints: from one
\* client no more than RATE_LIMIT requests are accepted within any trailing
\* RATE_WINDOW seconds, and a request beyond that is answered 429.
C13_RateLimitEnforced ==
    /\ \A client \in Clients : AcceptedInWindow(client, now) <= RATE_LIMIT
    /\ (call.op \in SingleRatingEndpoints \cup {"POST /ratings"}
          /\ http.endpoint = call.op /\ http.status_code = 200)
       => AcceptedInWindow(call.client, call.at) <= RATE_LIMIT

\* the platforms the dispatcher routes to an adapter
Candidates == Sites \cup Range(platforms_names) \cup Range(supported_platforms)
                 \cup {str_strip(str_lower(p)) : p \in PlatformStrings}
Routed == {p \in Candidates : get_rating_by_platform(p, tourist, NoResponse).sent # <<>>}

\* C15: the names returned by GET /platforms (and supported_platforms of
\* GET /) are exactly the platforms the dispatcher routes: leetcode,
\* codeforces, codechef and atcoder.
C15_ListingMatchesDispatcher ==
    /\ Routed = {leetcode, codeforces, codechef, atcoder}
    /\ (http.endpoint = "GET /platforms" /\ http.status_code = 200)
          => Range(http.body) = Routed
    /\ (http.endpoint = "GET /" /\ http.status_code = 200)
          => Range(http.body.supported_platforms) = Routed

\* the last call of rate_limit_check and the client's accepted calls before it
LimiterCalled == call.op = "rate_limit_check" /\ http.endpoint = "rate_limit_check"
AcceptedBefore(client) ==
    IF http.status_code = 200
    THEN SubSeq(accepted[client], 1, Len(accepted[client]) - 1)
    ELSE accepted[client]
InWindowAt(times, T) ==
    Cardinality({k \in 1..Len(times) : T - times[k] < RATE_WINDOW})

C19_State ==
    \* each list holds only timestamps of accepted calls: the latest ones
    /\ \A client \in Clients :
          \E n \in 0..Len(accepted[client]) :
              request_counts[client] =
                  SubSeq(accepted[client], n + 1, Len(accepted[client]))
    \* rejected exactly when RATE_LIMIT accepted timestamps are in the window
    /\ LimiterCalled =>
          /\ http.status_code \in {200, 429}
          /\ http.status_code = 429
                <=> InWindowAt(AcceptedBefore(call.client), call.at) >= RATE_LIMIT
          /\ request_counts[call.client] =
                SelectSeq(accepted[call.client],
                          LAMBDA req_time : call.at - req_time < RATE_WINDOW)
    \* at most RATE_LIMIT accepted calls in any trailing window
    /\ \A client \in Clients :
          \A T \in Range(accepted[client]) \cup {now} :
              AcceptedInWindow(client, T) <= RATE_LIMIT

C19_Step ==
    (call'.op = "rate_limit_check" /\ <<call, http, request_counts>>' # <<call, http, request_counts>>) =>
        \* a rejected call adds no timestamp
        /\ http'.status_code = 429 =>
              /\ Len(request_counts'[call'.client]) <= Len(request_counts[call'.client])
              /\ accepted' = accepted
        \* one client's calls never change another client's list
        /\ \A other \in Clients \ {call'.client} :
              request_counts'[other] = request_counts[other]

\* C19: after any sequence of rate_limit_check calls at non-decreasing times
\* each client's list holds only timestamps of accepted calls; a call is
\* rejected (429) exactly when that client's accepted timestamps t with
\* now - t < RATE_WINDOW number RATE_LIMIT or more; a rejected call adds no
\* timestamp; one client's calls never change another client's list; so at most
\* RATE_LIMIT calls per client are accepted within any trailing RATE_WINDOW.
C19_SlidingWindowLimiter == [](C19_State) /\ [][C19_Step]_vars

\* C19's case: a client is rejected while the other client has accepted calls
\* and a list of its own.
C19_Witness ==
    /\ LimiterCalled
    /\ http.status_code = 429
    /\ Len(request_counts[call.client]) = RATE_LIMIT
    /\ \E other \in Clients \ {call.client} : Len(request_counts[other]) = 1

\* C19's second case: the window has moved on and the client is accepted again.
C19_WitnessWindowMoved ==
    /\ LimiterCalled
    /\ http.status_code = 200
    /\ Len(accepted[call.client]) > RATE_LIMIT
    /\ request_counts[call.client] = <<call.at>>

====
